---- MODULE Spec2Model ----
(***************************************************************************)
(* A model of the Turing-machine simulator of src/src/turing.rs: the       *)
(* global state-name list STATES_LOCK, the line-by-line construction of a  *)
(* TuringMachine from an instruction file, and the step() operation with   *)
(* its tape growth, halting and panic behaviour.                           *)
(***************************************************************************)
EXTENDS Integers, Sequences, FiniteSets, TLC

\* ------------------------------------------------------------------ bounds
\* step() is not called on a running machine whose num_steps reached MaxSteps.
MaxSteps == 110
\* step() is not called on a halted machine that already returned false
\* MaxFalse times.
MaxFalse == 2

\* ------------------------------------------------------------ value types
DEFAULT_ENTRY == 0

\* Option<T>: None is the empty sequence, Some(x) the one-element sequence.
None == << >>
Some(x) == << x >>

\* The threads of the process that construct and run a machine.
Machines == {1, 2}

\* One line of an instruction file after split_whitespace(): a sequence of
\* tokens. The empty line is the empty sequence.
Line(src, rd, tgt, wr, dir) == << src, rd, "_", tgt, wr, dir >>

\* str::parse::<u8>() on the tokens that occur in the files of this model.
parse(tok) ==
    CASE tok = "0" -> Some(0)
      [] tok = "1" -> Some(1)
      [] tok = "2" -> Some(2)
      [] OTHER -> None

\* states.iter().position(|state| state == &name): the 0-based index of the
\* first occurrence.
position(states, name) ==
    IF \E i \in 1..Len(states) : states[i] = name
    THEN Some((CHOOSE i \in 1..Len(states) :
                  /\ states[i] = name
                  /\ \A j \in 1..(i - 1) : states[j] # name) - 1)
    ELSE None

\* Mutant of intern: the name is pushed without looking it up.
intern_always_push(states, name) ==
    [states |-> Append(states, name), idx |-> Len(states)]

\* The match of lines 74-80 and 86-92: look the name up, push it when absent.
intern(states, name) ==
    IF position(states, name) # None
    THEN [states |-> states, idx |-> position(states, name)[1]]
    ELSE [states |-> Append(states, name), idx |-> Len(states)]

\* Instruction::try_from(line) run on the global list `states`. The result
\* is Ok (with the instruction), EmptyLine, ParseError, or Panic (the
\* direction token is neither L nor R, which panics while the write guard
\* is held). `states` is the list the call leaves behind.
try_from(line, states) ==
    IF line = << >> THEN [res |-> "EmptyLine", states |-> states]
    ELSE IF Len(line) # 6 THEN [res |-> "ParseError", states |-> states]
    ELSE
      LET src == intern(states, line[1])
          tgt == IF line[4] = "Halt"
                 THEN [states |-> src.states, idx |-> None]
                 ELSE LET t == intern(src.states, line[4])
                      IN [states |-> t.states, idx |-> Some(t.idx)]
          source_entry == parse(line[2])
          target_entry == parse(line[5])
      IN IF source_entry = None THEN [res |-> "ParseError", states |-> tgt.states]
         ELSE IF target_entry = None THEN [res |-> "ParseError", states |-> tgt.states]
         ELSE IF line[6] \notin {"L", "R"} THEN [res |-> "Panic", states |-> tgt.states]
         ELSE [res |-> "Ok", states |-> tgt.states,
               instruction |->
                 [state |-> src.idx,
                  entry |-> source_entry[1],
                  new_state |-> tgt.idx,
                  new_entry |-> target_entry[1],
                  direction |-> IF line[6] = "L" THEN "Left" ELSE "Right"]]

\* The struct literal of TuringMachine::new.
new_machine(instrs) ==
    [state |-> Some(0),
     instructions |-> instrs,
     tape |-> << DEFAULT_ENTRY >>,
     pos |-> 0,
     offset |-> 0,
     num_steps |-> 0]

\* The value of a machine variable before new() returned.
NoMachine ==
    [state |-> None, instructions |-> << >>, tape |-> << >>,
     pos |-> 0, offset |-> 0, num_steps |-> 0]

\* ------------------------------------------------------------------ step
\* self.tape[self.pos]: pos is a 0-based index.
head(mc) == mc.tape[mc.pos + 1]

\* Mutant of matches: the symbol under the head is not compared.
matches_state_only(mc, ins) == mc.state = Some(ins.state)

\* The condition of the if inside the loop of step().
matches(mc, ins) == mc.state = Some(ins.state) /\ head(mc) = ins.entry

\* Mutant of first_match: the loop does not stop at the first match and the
\* last matching instruction is applied.
last_match(mc) ==
    IF \E i \in 1..Len(mc.instructions) : matches(mc, mc.instructions[i])
    THEN CHOOSE i \in 1..Len(mc.instructions) :
            /\ matches(mc, mc.instructions[i])
            /\ \A j \in (i + 1)..Len(mc.instructions) : ~matches(mc, mc.instructions[j])
    ELSE 0

\* The loop of step(): the index of the first instruction, in declaration
\* order, that matches; 0 when the loop falls through.
first_match(mc) ==
    IF \E i \in 1..Len(mc.instructions) : matches(mc, mc.instructions[i])
    THEN CHOOSE i \in 1..Len(mc.instructions) :
            /\ matches(mc, mc.instructions[i])
            /\ \A j \in 1..(i - 1) : ~matches(mc, mc.instructions[j])
    ELSE 0

\* Mutant of extend_left: offset is not incremented.
extend_left_keeps_offset(mc) ==
    [mc EXCEPT !.tape = << DEFAULT_ENTRY >> \o @,
               !.pos = @ + 1]

\* Mutant of extend_left: the cell is inserted but pos is not shifted.
extend_left_keeps_pos(mc) ==
    [mc EXCEPT !.tape = << DEFAULT_ENTRY >> \o @,
               !.offset = @ + 1]

extend_left(mc) ==
    [mc EXCEPT !.tape = << DEFAULT_ENTRY >> \o @,
               !.pos = @ + 1,
               !.offset = @ + 1]

\* Mutant of extend_right: two cells are appended.
extend_right_twice(mc) ==
    [mc EXCEPT !.tape = @ \o << DEFAULT_ENTRY, DEFAULT_ENTRY >>]

\* Mutant of extend_right: the appended cell holds 1.
extend_right_dirty(mc) ==
    [mc EXCEPT !.tape = Append(@, 1)]

extend_right(mc) ==
    [mc EXCEPT !.tape = Append(@, DEFAULT_ENTRY)]

\* Mutant of move: a Right move appends a cell without testing for the edge.
move_grows_always(mc, direction) ==
    IF direction = "Left"
    THEN LET e == IF mc.pos = 0 THEN extend_left(mc) ELSE mc
         IN [e EXCEPT !.pos = @ - 1]
    ELSE extend_right([mc EXCEPT !.pos = @ + 1])

\* The match on instruction.direction.
move(mc, direction) ==
    IF direction = "Left"
    THEN LET e == IF mc.pos = 0 THEN extend_left(mc) ELSE mc
         IN [e EXCEPT !.pos = @ - 1]
    ELSE LET r == [mc EXCEPT !.pos = @ + 1]
         IN IF r.pos = Len(r.tape) THEN extend_right(r) ELSE r

\* Mutant of apply: the write is lost.
apply_skips_write(mc, ins) ==
    move([mc EXCEPT !.state = ins.new_state], ins.direction)

\* Mutant of apply: the head moves first and the write lands on the new cell.
apply_write_after_move(mc, ins) ==
    LET moved == move([mc EXCEPT !.state = ins.new_state], ins.direction)
    IN [moved EXCEPT !.tape[moved.pos + 1] = ins.new_entry]

\* The body of the if inside the loop: set the state, write, move.
apply(mc, ins) ==
    move([mc EXCEPT !.state = ins.new_state,
                    !.tape[mc.pos + 1] = ins.new_entry],
         ins.direction)

\* Mutant of count: the increment is lost.
count_lost(mc) == mc

\* self.num_steps += 1
count(mc) == [mc EXCEPT !.num_steps = @ + 1]

\* Mutant of step: num_steps is incremented before the match on self.state.
step_counts_when_halted(mc) ==
    LET c == count(mc)
        i == first_match(c)
    IN IF mc.state = None THEN [tm |-> c, ret |-> "false"]
       ELSE IF i = 0 THEN [tm |-> c, ret |-> "panic"]
       ELSE [tm |-> apply(c, c.instructions[i]), ret |-> "true"]

\* Mutant of step: the step that applies a Halt instruction returns false.
step_halt_returns_false(mc) ==
    IF mc.state = None THEN [tm |-> mc, ret |-> "false"]
    ELSE LET c == count(mc)
             i == first_match(c)
         IN IF i = 0 THEN [tm |-> c, ret |-> "panic"]
            ELSE [tm |-> apply(c, c.instructions[i]),
                  ret |-> IF c.instructions[i].new_state = None
                          THEN "false" ELSE "true"]

\* Mutant of step: a failed lookup halts the machine and returns false.
step_silent_halt(mc) ==
    IF mc.state = None THEN [tm |-> mc, ret |-> "false"]
    ELSE LET c == count(mc)
             i == first_match(c)
         IN IF i = 0 THEN [tm |-> [c EXCEPT !.state = None], ret |-> "false"]
            ELSE [tm |-> apply(c, c.instructions[i]), ret |-> "true"]

\* Mutant of step: num_steps is incremented only once an instruction matched.
step_fault_uncounted(mc) ==
    IF mc.state = None THEN [tm |-> mc, ret |-> "false"]
    ELSE LET c == count(mc)
             i == first_match(c)
         IN IF i = 0 THEN [tm |-> mc, ret |-> "panic"]
            ELSE [tm |-> apply(c, c.instructions[i]), ret |-> "true"]

\* step(): the machine it leaves behind and how the call ends: it returns
\* true, returns false, or panics ("No Instruction matched Turing-Machine").
step(mc) ==
    IF mc.state = None THEN [tm |-> mc, ret |-> "false"]
    ELSE LET c == count(mc)
             i == first_match(c)
         IN IF i = 0 THEN [tm |-> c, ret |-> "panic"]
            ELSE [tm |-> apply(c, c.instructions[i]), ret |-> "true"]

\* The step() call on mc reaches the call of extend_left() (line 191): an
\* instruction matches, its direction is Left and pos is 0.
calls_extend_left(mc) ==
    /\ mc.state # None
    /\ first_match(mc) # 0
    /\ mc.instructions[first_match(mc)].direction = "Left"
    /\ mc.pos = 0

\* The step() call on mc reaches the call of extend_right() (line 198): an
\* instruction matches, its direction is Right and pos + 1 is tape.len().
calls_extend_right(mc) ==
    /\ mc.state # None
    /\ first_match(mc) # 0
    /\ mc.instructions[first_match(mc)].direction = "Right"
    /\ mc.pos + 1 = Len(mc.tape)

\* The loop of print_tape(): it has no break, so the instruction it keeps is
\* the last one, in declaration order, that matches; 0 when none does or the
\* machine is halted ("No Instruction").
print_tape_instruction(mc) ==
    IF mc.state # None /\ \E i \in 1..Len(mc.instructions) : matches(mc, mc.instructions[i])
    THEN CHOOSE i \in 1..Len(mc.instructions) :
            /\ matches(mc, mc.instructions[i])
            /\ \A j \in (i + 1)..Len(mc.instructions) : ~matches(mc, mc.instructions[j])
    ELSE 0

\* eval_busy_bever(): the tuple (ones, zeros, num_steps) it returns.
eval_busy_bever(mc) ==
    << Cardinality({i \in 1..Len(mc.tape) : mc.tape[i] = 1}),
       Cardinality({i \in 1..Len(mc.tape) : mc.tape[i] = 0}),
       mc.num_steps >>

\* ----------------------------------------------------------------- state
VARIABLES
    STATES_LOCK,  \* the Vec<String> inside the global RwLock
    poisoned,     \* the RwLock is poisoned (a thread panicked holding it)
    file,         \* file[m]: the lines of the file machine m is built from
    lineno,       \* lineno[m]: the next line new() hands to try_from
    parsed,       \* parsed[m]: the local vec `instructions` of new()
    pc,           \* pc[m]: "idle", "new" (inside new()), "ready", "panicked"
    tm,           \* tm[m]: the TuringMachine new() returned
    ret,          \* ret[m]: how the last step() call ended
    trues,        \* trues[m]: the number of step() calls that returned true
    falses,       \* falses[m]: the number of step() calls that returned false
    written,      \* written[m]: the cells an applied instruction wrote, as
                  \*   index minus offset at the time of the write
    lgrow,        \* lgrow[m]: the number of extend_left() calls
    rgrow         \* rgrow[m]: the number of extend_right() calls

vars == << STATES_LOCK, poisoned, file, lineno, parsed, pc, tm, ret, trues, falses,
          written, lgrow, rgrow >>

\* ------------------------------------------------------------ input files
BB1 == << Line("A", "0", "Halt", "1", "R") >>

BB2 ==
    << Line("A", "0", "B", "1", "R"),
       Line("A", "1", "B", "1", "L"),
       Line("B", "0", "A", "1", "L"),
       Line("B", "1", "Halt", "1", "R") >>

BB3 ==
    << Line("A", "0", "B", "1", "R"),
       Line("A", "1", "Halt", "1", "R"),
       Line("B", "0", "C", "0", "R"),
       Line("B", "1", "B", "1", "R"),
       Line("C", "0", "C", "1", "L"),
       Line("C", "1", "A", "1", "L") >>

BB4 ==
    << Line("A", "0", "B", "1", "R"),
       Line("A", "1", "B", "1", "L"),
       Line("B", "0", "A", "1", "L"),
       Line("B", "1", "C", "0", "L"),
       Line("C", "0", "Halt", "1", "R"),
       Line("C", "1", "D", "1", "L"),
       Line("D", "0", "D", "1", "R"),
       Line("D", "1", "A", "0", "R") >>

\* Every two-line table over the states A, B and the symbols 0, 1: complete
\* and incomplete tables, tables with duplicate (state, symbol) pairs, tables
\* whose first line names B first.
GenLines ==
    { Line(s, r, t, w, d) : s \in {"A", "B"}, r \in {"0", "1"},
                            t \in {"A", "B", "Halt"}, w \in {"0", "1"},
                            d \in {"L", "R"} }

GenFiles == { << l1, l2 >> : l1 \in GenLines, l2 \in GenLines }

\* Files with blank lines, malformed lines and a third symbol.
OddFiles ==
    { << >>,
      << << >>, Line("A", "0", "Halt", "1", "R"), << >> >>,
      << Line("A", "0", "B", "2", "R"), Line("B", "0", "A", "1", "L"),
         Line("A", "2", "Halt", "0", "L") >>,
      << Line("A", "0", "A", "1", "R"), << "A", "1", "Halt" >> >>,
      << Line("A", "x", "B", "1", "R") >>,
      << Line("A", "0", "B", "x", "R") >>,
      << Line("A", "0", "B", "1", "S") >> }

SoloFiles == {BB1, BB2, BB3, BB4} \cup GenFiles \cup OddFiles

\* The files of two machines built in one process.
PairFiles ==
    { BB1, BB2,
      << Line("X", "0", "Halt", "1", "L") >>,
      << Line("X", "0", "Y", "1", "L"), Line("Y", "0", "Halt", "1", "R") >>,
      << Line("B", "0", "A", "1", "R"), Line("A", "0", "Halt", "1", "L") >>,
      << Line("A", "0", "B", "1", "S") >> }

\* ------------------------------------------------------------------ Init
InitCommon ==
    /\ STATES_LOCK = << >>
    /\ poisoned = FALSE
    /\ lineno = [m \in Machines |-> 1]
    /\ parsed = [m \in Machines |-> << >>]
    /\ tm = [m \in Machines |-> NoMachine]
    /\ ret = [m \in Machines |-> "none"]
    /\ trues = [m \in Machines |-> 0]
    /\ falses = [m \in Machines |-> 0]
    /\ written = [m \in Machines |-> {}]
    /\ lgrow = [m \in Machines |-> 0]
    /\ rgrow = [m \in Machines |-> 0]

\* main(): one machine in the process.
InitSolo ==
    /\ InitCommon
    /\ \E f \in SoloFiles : file = [m \in Machines |-> IF m = 1 THEN f ELSE << >>]
    /\ pc = [m \in Machines |-> IF m = 1 THEN "new" ELSE "idle"]

\* The tests: several machines in one process, one per thread.
InitPair ==
    /\ InitCommon
    /\ file \in [Machines -> PairFiles]
    /\ pc = [m \in Machines |-> "new"]

Init == InitSolo \/ InitPair

\* --------------------------------------------------------------- actions
\* One iteration of the loop over content.lines() in TuringMachine::new:
\* try_from takes the write lock, and new() panics on a ParseError.
new_line(m) ==
    /\ pc[m] = "new"
    /\ lineno[m] <= Len(file[m])
    /\ IF poisoned
       THEN \* STATES_LOCK.write().unwrap() panics
            /\ pc' = [pc EXCEPT ![m] = "panicked"]
            /\ UNCHANGED << STATES_LOCK, poisoned, lineno, parsed >>
       ELSE LET r == try_from(file[m][lineno[m]], STATES_LOCK)
            IN /\ STATES_LOCK' = r.states
               /\ poisoned' = (r.res = "Panic")
               /\ pc' = [pc EXCEPT ![m] =
                           IF r.res \in {"Ok", "EmptyLine"} THEN "new" ELSE "panicked"]
               /\ lineno' = [lineno EXCEPT ![m] =
                           IF r.res \in {"Ok", "EmptyLine"} THEN @ + 1 ELSE @]
               /\ parsed' = [parsed EXCEPT ![m] =
                           IF r.res = "Ok" THEN Append(@, r.instruction) ELSE @]
    /\ UNCHANGED << file, tm, ret, trues, falses, written, lgrow, rgrow >>

\* The end of TuringMachine::new: the struct is built and returned.
new_return(m) ==
    /\ pc[m] = "new"
    /\ lineno[m] > Len(file[m])
    /\ tm' = [tm EXCEPT ![m] = new_machine(parsed[m])]
    /\ pc' = [pc EXCEPT ![m] = "ready"]
    /\ UNCHANGED << STATES_LOCK, poisoned, file, lineno, parsed, ret, trues, falses,
                    written, lgrow, rgrow >>

\* One call of tm.step() by the caller's loop.
call_step(m) ==
    /\ pc[m] = "ready"
    /\ IF tm[m].state = None
       THEN falses[m] < MaxFalse
       ELSE tm[m].num_steps < MaxSteps
    /\ LET r == step(tm[m])
       IN /\ tm' = [tm EXCEPT ![m] = r.tm]
          /\ ret' = [ret EXCEPT ![m] = r.ret]
          /\ trues' = [trues EXCEPT ![m] = IF r.ret = "true" THEN @ + 1 ELSE @]
          /\ falses' = [falses EXCEPT ![m] = IF r.ret = "false" THEN @ + 1 ELSE @]
          /\ pc' = [pc EXCEPT ![m] = IF r.ret = "panic" THEN "panicked" ELSE @]
          /\ written' = [written EXCEPT ![m] =
                IF r.ret = "true" THEN @ \cup {tm[m].pos - tm[m].offset} ELSE @]
          /\ lgrow' = [lgrow EXCEPT ![m] =
                IF r.ret = "true" /\ calls_extend_left(tm[m]) THEN @ + 1 ELSE @]
          /\ rgrow' = [rgrow EXCEPT ![m] =
                IF r.ret = "true" /\ calls_extend_right(tm[m]) THEN @ + 1 ELSE @]
    /\ UNCHANGED << STATES_LOCK, poisoned, file, lineno, parsed >>

Next ==
    \E m \in Machines :
        \/ new_line(m)
        \/ new_return(m)
        \/ call_step(m)

Spec == Init /\ [][Next]_vars

\* ---------------------------------------------------------------- claims
\* Machine m has been returned by new() and no step() call on it panicked.
Ready(m) == pc[m] = "ready"

\* step() panicked on machine m: the machine is what the panic left behind.
Faulted(m) == pc[m] = "panicked" /\ ret[m] = "panic"

\* Machine m exists: new() returned it.
Built(m) == Ready(m) \/ Faulted(m)

\* In this transition a step() call on the running machine m was made.
RunningCall(m) == Ready(m) /\ tm[m].state # None /\ tm'[m] # tm[m]

\* The instruction the loop of step() selects for machine m (0: none).
Selected(m) == first_match(tm[m])

\* C1: in every state reachable from new() through step() calls the head
\* index is inside the tape, 0 <= pos < tape.len().
C1_HeadInTape ==
    \A m \in Machines :
        Built(m) => (0 <= tm[m].pos /\ tm[m].pos < Len(tm[m].tape))

\* C1 witness: the head sits on index 0 of a tape that has grown on the left
\* and on the right.
C1_Witness ==
    \E m \in Machines :
        /\ Ready(m)
        /\ tm[m].pos = 0
        /\ tm[m].offset >= 1
        /\ Len(tm[m].tape) >= tm[m].offset + 2

\* C2: once the control state is None, every further step() call returns
\* false and leaves state, tape, pos, offset and num_steps unchanged.
C2_HaltedFrame ==
    [][\A m \in Machines :
          (Ready(m) /\ tm[m].state = None) =>
              /\ tm'[m] = tm[m]
              /\ pc'[m] = "ready"
              /\ trues'[m] = trues[m]
              /\ \/ ret'[m] = ret[m] /\ falses'[m] = falses[m]
                 \/ ret'[m] = "false" /\ falses'[m] = falses[m] + 1]_vars

\* C2 witness: a halted machine on which step() returned false twice.
C2_Witness ==
    \E m \in Machines :
        /\ Ready(m)
        /\ tm[m].state = None
        /\ falses[m] >= 2
        /\ ret[m] = "false"

\* C3: a step() call that returns true makes num_steps one larger, one that
\* returns false leaves it unchanged, and while every call returned,
\* num_steps is the number of calls that returned true.
C3_StepCount ==
    /\ [](\A m \in Machines : Ready(m) => tm[m].num_steps = trues[m])
    /\ [][\A m \in Machines :
            /\ trues'[m] # trues[m] =>
                 /\ ret'[m] = "true"
                 /\ tm'[m].num_steps = tm[m].num_steps + 1
            /\ falses'[m] # falses[m] =>
                 /\ ret'[m] = "false"
                 /\ tm'[m].num_steps = tm[m].num_steps]_vars

\* C3 witness: a machine with several true returns and a false return.
C3_Witness ==
    \E m \in Machines :
        /\ Ready(m)
        /\ trues[m] >= 3
        /\ falses[m] >= 1

\* C4: a step() that applies an instruction whose target is Halt returns
\* true, counts as a step and leaves the control state None; no call before
\* it returned false, and the call right after it returns false.
C4_HaltStep ==
    /\ [](\A m \in Machines :
            (Ready(m) /\ (tm[m].state # None \/ ret[m] = "true")) => falses[m] = 0)
    /\ [][\A m \in Machines :
            /\ ( /\ RunningCall(m)
                 /\ Selected(m) # 0
                 /\ tm[m].instructions[Selected(m)].new_state = None )
               => /\ ret'[m] = "true"
                  /\ trues'[m] = trues[m] + 1
                  /\ tm'[m].num_steps = tm[m].num_steps + 1
                  /\ tm'[m].state = None
                  /\ pc'[m] = "ready"
            /\ ( /\ Ready(m)
                 /\ tm[m].state = None
                 /\ ret[m] = "true"
                 /\ << ret'[m], falses'[m], trues'[m], pc'[m] >>
                      # << ret[m], falses[m], trues[m], pc[m] >> )
               => /\ ret'[m] = "false"
                  /\ falses'[m] = 1]_vars

\* C4 witness: a machine halted by a Halt instruction after other steps, on
\* which the next step() call returned false.
C4_Witness ==
    \E m \in Machines :
        /\ Ready(m)
        /\ tm[m].state = None
        /\ trues[m] >= 2
        /\ falses[m] = 1
        /\ ret[m] = "false"

\* The tape of machine m with the selected instruction's symbol written
\* under the head.
Written(m) ==
    [tm[m].tape EXCEPT ![tm[m].pos + 1] = tm[m].instructions[Selected(m)].new_entry]

\* C5: a step() that applies an instruction grows the tape by one default
\* cell at the left edge exactly when the move is Left and the head was at
\* index 0, by one default cell at the right edge exactly when the move is
\* Right and the head was at the last index, and not at all otherwise.
C5_Growth ==
    [][\A m \in Machines :
          (RunningCall(m) /\ Selected(m) # 0) =>
              LET dir == tm[m].instructions[Selected(m)].direction
                  atLeft == dir = "Left" /\ tm[m].pos = 0
                  atRight == dir = "Right" /\ tm[m].pos = Len(tm[m].tape) - 1
              IN /\ atLeft =>
                      /\ tm'[m].tape = << DEFAULT_ENTRY >> \o Written(m)
                      /\ tm'[m].offset = tm[m].offset + 1
                 /\ atRight =>
                      /\ tm'[m].tape = Written(m) \o << DEFAULT_ENTRY >>
                      /\ tm'[m].offset = tm[m].offset
                 /\ (~atLeft /\ ~atRight) =>
                      /\ tm'[m].tape = Written(m)
                      /\ tm'[m].offset = tm[m].offset]_vars

\* C5 witness: a tape that has grown at the left edge and at the right edge.
C5_Witness ==
    \E m \in Machines :
        /\ Ready(m)
        /\ trues[m] >= 3
        /\ tm[m].offset >= 1
        /\ Len(tm[m].tape) - tm[m].offset >= 3

\* C6: the control state becomes None only by a step() that applied an
\* instruction whose target is Halt; a step() in which no instruction matches
\* neither sets the control state to None nor returns false; once None, the
\* control state stays None.
C6_HaltOnlyByHalt ==
    [][\A m \in Machines :
          /\ (Ready(m) /\ tm[m].state # None /\ tm'[m].state = None) =>
                /\ Selected(m) # 0
                /\ tm[m].instructions[Selected(m)].new_state = None
                /\ ret'[m] = "true"
          /\ (RunningCall(m) /\ Selected(m) = 0) =>
                /\ tm'[m].state = tm[m].state
                /\ ret'[m] = "panic"
                /\ falses'[m] = falses[m]
          /\ (Built(m) /\ tm[m].state = None) => tm'[m].state = None]_vars

\* C6 witness: a step() found no matching instruction after earlier steps and
\* the control state is still Some.
C6_Witness ==
    \E m \in Machines :
        /\ Faulted(m)
        /\ trues[m] >= 1
        /\ tm[m].state # None

\* C7: when no instruction matches, step() hands an explicit error value back
\* to its caller instead of aborting: no step() call ends in a panic.
C7_FaultIsReturned ==
    \A m \in Machines : ~Faulted(m)

\* C8 as stated: a step() that finds no matching instruction leaves the whole
\* machine, num_steps included, as it was before the call.
C8_FaultFrameOriginal ==
    [][\A m \in Machines :
          (RunningCall(m) /\ Selected(m) = 0) => tm'[m] = tm[m]]_vars

\* C8 amended: a step() that finds no matching instruction leaves tape, pos,
\* offset and control state as they were and makes num_steps one larger, so
\* at the fault num_steps is the number of instructions applied plus one.
C8_FaultFrame ==
    /\ [](\A m \in Machines : Faulted(m) => tm[m].num_steps = trues[m] + 1)
    /\ [][\A m \in Machines :
            (RunningCall(m) /\ Selected(m) = 0) =>
                /\ tm'[m] = [tm[m] EXCEPT !.num_steps = @ + 1]
                /\ trues'[m] = trues[m]
                /\ ret'[m] = "panic"]_vars

\* C8 witness: the fault after at least two applied instructions.
C8_Witness ==
    \E m \in Machines :
        /\ Faulted(m)
        /\ trues[m] >= 2
        /\ Len(tm[m].tape) >= 2

\* C9: in every machine new() returned, no two instructions share the same
\* (state, entry) pair: a table with such a pair is rejected.
C9_NoDuplicates ==
    \A m \in Machines :
        Built(m) =>
            \A i, j \in 1..Len(tm[m].instructions) :
                ( /\ tm[m].instructions[i].state = tm[m].instructions[j].state
                  /\ tm[m].instructions[i].entry = tm[m].instructions[j].entry )
                => i = j

\* The source state named by the first instruction line of a file.
FirstSource(f) ==
    LET i == CHOOSE k \in 1..Len(f) : f[k] # << >> /\ \A j \in 1..(k - 1) : f[j] = << >>
    IN f[i][1]

\* C10: every machine new() returns starts in the first state its own table
\* declares, on the one-cell tape [0], with pos, offset and num_steps 0.
C10_InitialState ==
    \A m \in Machines :
        (Ready(m) /\ ret[m] = "none") =>
            /\ tm[m].tape = << DEFAULT_ENTRY >>
            /\ tm[m].pos = 0
            /\ tm[m].offset = 0
            /\ tm[m].num_steps = 0
            /\ tm[m].instructions # << >> =>
                 /\ tm[m].state # None
                 /\ STATES_LOCK[tm[m].state[1] + 1] = FirstSource(file[m])

\* C11: two runs from the same instruction file pass through the same
\* (state, tape, pos, offset, num_steps) after the same number of step()
\* calls and end, once both are halted, with the same num_steps and tape.
C11_Determinism ==
    \A m1, m2 \in Machines :
        (Built(m1) /\ Built(m2) /\ file[m1] = file[m2]) =>
            /\ tm[m1].num_steps = tm[m2].num_steps => tm[m1] = tm[m2]
            /\ (tm[m1].state = None /\ tm[m2].state = None) =>
                 /\ tm[m1].num_steps = tm[m2].num_steps
                 /\ tm[m1].tape = tm[m2].tape
                 /\ trues[m1] = trues[m2]

\* C11 witness: two machines built from the same file, both run until
\* step() returned false, after several steps with growth on both sides.
C11_Witness ==
    /\ file[1] = file[2]
    /\ \A m \in Machines :
          /\ Ready(m)
          /\ tm[m].state = None
          /\ ret[m] = "false"
          /\ trues[m] >= 6
          /\ tm[m].offset >= 1

\* C12: every tape cell that no applied instruction wrote holds the default
\* symbol, whether it is the initial cell or a cell created by growth.
C12_UnwrittenIsDefault ==
    \A m \in Machines :
        Built(m) =>
            \A i \in 1..Len(tm[m].tape) :
                (i - 1 - tm[m].offset) \notin written[m]
                    => tm[m].tape[i] = DEFAULT_ENTRY

\* C12 witness: a tape that has grown on both sides, whose leftmost cell,
\* created by left growth, is unwritten, and in which a written cell holds 1.
C12_Witness ==
    \E m \in Machines :
        /\ Ready(m)
        /\ tm[m].offset >= 1
        /\ rgrow[m] >= 1
        /\ (0 - tm[m].offset) \notin written[m]
        /\ \E i \in 1..Len(tm[m].tape) : tm[m].tape[i] = 1

\* Machine m runs the table of file f from that table's own first state:
\* new() starts every machine in the state of index 0 of STATES_LOCK.
RunsFromFirst(m, f) ==
    /\ file[m] = f
    /\ Built(m)
    /\ STATES_LOCK[1] = FirstSource(f)

\* The run of machine m takes exactly n steps that return true, the machine
\* is halted exactly from then on, step() returns false only after them, no
\* step() panics, and halted, eval_busy_bever() returns (ones, zeros, n).
HaltsWith(m, n, ones, zeros) ==
    /\ Ready(m)
    /\ trues[m] <= n
    /\ (tm[m].state = None) <=> (trues[m] = n)
    /\ falses[m] >= 1 => trues[m] = n
    /\ tm[m].state = None => eval_busy_bever(tm[m]) = << ones, zeros, n >>

\* C13: the machine whose only instruction is (A, 0) -> (Halt, 1, R) takes
\* exactly 1 step that returns true, then step() returns false; the final
\* tape is [1, 0] and the tally is 1 one and 1 zero.
C13_BusyBeaver1 ==
    \A m \in Machines :
        RunsFromFirst(m, BB1) =>
            /\ HaltsWith(m, 1, 1, 1)
            /\ tm[m].state = None => tm[m].tape = << 1, 0 >>

\* C13 witness: the machine ran to the false return of step().
C13_Witness ==
    \E m \in Machines :
        /\ RunsFromFirst(m, BB1)
        /\ ret[m] = "false"
        /\ trues[m] = 1
        /\ tm[m].tape = << 1, 0 >>

\* C14: the 2-state busy beaver halts after exactly 6 steps that return
\* true, with 4 ones and 0 zeros on the tape.
C14_BusyBeaver2 ==
    \A m \in Machines :
        RunsFromFirst(m, BB2) => HaltsWith(m, 6, 4, 0)

\* C14 witness: the machine ran to the false return of step().
C14_Witness ==
    \E m \in Machines :
        /\ RunsFromFirst(m, BB2)
        /\ ret[m] = "false"
        /\ trues[m] = 6
        /\ Len(tm[m].tape) = 4

\* main() run on one of the busy-beaver files of the tests.
InitBusyBeaver ==
    /\ InitCommon
    /\ \E f \in {BB1, BB2, BB3, BB4} :
          file = [m \in Machines |-> IF m = 1 THEN f ELSE << >>]
    /\ pc = [m \in Machines |-> IF m = 1 THEN "new" ELSE "idle"]

\* The caller's loops run on: new() reads its next line and returns, and
\* `while tm.step()` makes its next call.
FairSpec ==
    /\ InitBusyBeaver
    /\ [][Next]_vars
    /\ \A m \in Machines :
          /\ WF_vars(new_line(m))
          /\ WF_vars(new_return(m))
          /\ WF_vars(call_step(m))

\* C15: the 4-state busy beaver eventually halts, after exactly 107 steps
\* that return true, with 13 ones and 1 zero on the tape.
C15_BusyBeaver4 ==
    /\ [](\A m \in Machines : RunsFromFirst(m, BB4) => HaltsWith(m, 107, 13, 1))
    /\ (file[1] = BB4 /\ pc[1] = "new")
          ~> ( /\ Ready(1)
               /\ tm[1].state = None
               /\ ret[1] = "false"
               /\ eval_busy_bever(tm[1]) = << 13, 1, 107 >> )

\* C15 witness: the machine ran to the false return of step().
C15_Witness ==
    \E m \in Machines :
        /\ RunsFromFirst(m, BB4)
        /\ ret[m] = "false"
        /\ trues[m] = 107
        /\ Len(tm[m].tape) = 14

\* C16: a step() that applies an instruction writes the instruction's write
\* symbol into the cell that was under the head when the call began, and
\* every other cell of the old tape keeps its value at the same index minus
\* offset.
C16_WriteFrame ==
    [][\A m \in Machines :
          (RunningCall(m) /\ Selected(m) # 0) =>
              LET shift == tm'[m].offset - tm[m].offset
              IN \A i \in 1..Len(tm[m].tape) :
                    /\ i + shift \in 1..Len(tm'[m].tape)
                    /\ tm'[m].tape[i + shift] =
                          IF i = tm[m].pos + 1
                          THEN tm[m].instructions[Selected(m)].new_entry
                          ELSE tm[m].tape[i]]_vars

\* C16 witness: a tape that has grown on both sides with at least three
\* written cells.
C16_Witness ==
    \E m \in Machines :
        /\ Ready(m)
        /\ lgrow[m] >= 1
        /\ rgrow[m] >= 1
        /\ Cardinality(written[m]) >= 3

\* C17: a step() that applies an instruction changes pos - offset by exactly
\* -1 for a Left move and by exactly +1 for a Right move; a Left move at
\* index 0 leaves pos at 0 and makes offset one larger.
C17_HeadMove ==
    [][\A m \in Machines :
          (RunningCall(m) /\ Selected(m) # 0) =>
              LET dir == tm[m].instructions[Selected(m)].direction
                  before == tm[m].pos - tm[m].offset
                  after == tm'[m].pos - tm'[m].offset
              IN /\ dir = "Left" => after = before - 1
                 /\ dir = "Right" => after = before + 1
                 /\ (dir = "Left" /\ tm[m].pos = 0) =>
                       /\ tm'[m].pos = 0
                       /\ tm'[m].offset = tm[m].offset + 1]_vars

\* C17 witness: the head is on index 0 after two Left moves at index 0.
C17_Witness ==
    \E m \in Machines :
        /\ Ready(m)
        /\ tm[m].pos = 0
        /\ tm[m].offset >= 2
        /\ lgrow[m] >= 2

\* The instructions of machine m that match its state and the symbol under
\* its head.
Matching(m) ==
    { i \in 1..Len(tm[m].instructions) : matches(tm[m], tm[m].instructions[i]) }

\* C18: when several instructions match, step() applies the one that comes
\* first in declaration order and never a later one.
C18_FirstMatchWins ==
    [][\A m \in Machines :
          (RunningCall(m) /\ Matching(m) # {}) =>
              \E i \in Matching(m) :
                  /\ \A j \in Matching(m) : i <= j
                  /\ ret'[m] = "true"
                  /\ tm'[m] = apply(count(tm[m]), tm[m].instructions[i])
                  /\ \A j \in Matching(m) :
                        apply(count(tm[m]), tm[m].instructions[j])
                            # apply(count(tm[m]), tm[m].instructions[i])
                        => tm'[m] # apply(count(tm[m]), tm[m].instructions[j])]_vars

\* C18 witness: the first step of a machine whose two instructions are both
\* for (state 0, symbol 0); the first writes 1, the second writes 0, and the
\* cell holds 1.
C18_Witness ==
    \E m \in Machines :
        /\ Ready(m)
        /\ trues[m] = 1
        /\ Len(tm[m].instructions) = 2
        /\ \A i \in {1, 2} : /\ tm[m].instructions[i].state = 0
                             /\ tm[m].instructions[i].entry = 0
        /\ tm[m].instructions[1].new_entry = 1
        /\ tm[m].instructions[2].new_entry = 0
        /\ tm[m].instructions[1].direction # tm[m].instructions[2].direction
        /\ written[m] = {0}
        /\ tm[m].tape[tm[m].offset + 1] = 1

\* C19: offset is the number of left-growth events, never decreases, is
\* less than tape.len(), and tape.len() = 1 + offset + the number of
\* right-growth events; the initial cell, shifted once by every left growth,
\* is at index offset.
C19_Offset ==
    /\ [](\A m \in Machines :
            Built(m) =>
                /\ tm[m].offset = lgrow[m]
                /\ tm[m].offset < Len(tm[m].tape)
                /\ Len(tm[m].tape) = 1 + tm[m].offset + rgrow[m])
    /\ [][\A m \in Machines : Built(m) => tm'[m].offset >= tm[m].offset]_vars

\* C19 witness: a tape that has grown twice on each side.
C19_Witness ==
    \E m \in Machines :
        /\ Ready(m)
        /\ lgrow[m] >= 2
        /\ rgrow[m] >= 2

\* C20: in every running state the instruction print_tape() displays is the
\* one the next step() applies, and print_tape() shows "No Instruction"
\* exactly when the machine is halted or the next step() finds no match.
C20_PrintMatchesStep ==
    \A m \in Machines :
        Ready(m) =>
            LET shown == print_tape_instruction(tm[m])
                used == Selected(m)
            IN /\ (shown = 0) <=> (tm[m].state = None \/ used = 0)
               /\ shown # 0 => tm[m].instructions[shown] = tm[m].instructions[used]

====
